---- MODULE Spec2Model ----
(***************************************************************************)
(* fixit (src/fixit/__init__.py): a runner that fetches origin/master,     *)
(* discovers fix scripts, materialises each one in a temporary file and    *)
(* executes it.                                                            *)
(*                                                                         *)
(* Strings that the program cuts apart are modelled by their structure: a  *)
(* line of tool output (and a path) is a sequence of whitespace-separated  *)
(* tokens, and a token is a sequence of '/'-separated components.  So      *)
(*   "fixit/fixes/a.sh"        is << <<"fixit","fixes","a.sh">> >>         *)
(*   "fixit/fixes/p q r a.sh"  is << <<"fixit","fixes","p">>, <<"q">>,     *)
(*                                   <<"r">>, <<"a.sh">> >>                *)
(* Lines of the model hold at most four tokens, so the fourth piece of     *)
(* bytes.split(maxsplit=3) is exactly the fourth token.                    *)
(*                                                                         *)
(* Timestamps are whole seconds (int(since_date.timestamp()) truncates to  *)
(* them); a commit is named by its position in the history of master.      *)
(***************************************************************************)
EXTENDS Integers, Sequences, FiniteSets, TLC

VARIABLES
    log,      \* the remote repository's master: a sequence of commits [date, tree]
    origin,   \* refs/remotes/origin/master of the clone: a commit of log
    local,    \* the clone's tracked files (index and working tree): path -> content
    marker,   \* mtime of fixit/.last_fixed, NoTime when the file does not exist
    clock,    \* the wall clock, in seconds
    tmpdir,   \* the temporary files on disk: records [id, mode, content]
    pc,       \* position of the fixit process
    argv,     \* sys.argv[1:]
    mode,     \* the branch main() took: "pending", "all", "one", "usage"
    tip,      \* origin/master as left by this process's git fetch
    disc,     \* what discovery computed: [done, since, sha, res]
    queue,    \* fixes the loop of run_fixes has not reached yet
    cur,      \* the name run_fix was called with
    tmp,      \* id of the temporary file of the run_fix call in progress
    rc,       \* return code of git show in the run_fix call in progress
    exc,      \* the exception in flight, "none" when there is none
    status,   \* exit status of the last fix script that ran
    exit,     \* exit status of the fixit process
    out,      \* lines printed to stdout
    err,      \* lines printed to stderr
    execs,    \* the starts of a materialised script: [name, content, mode, ok, st]
    unit      \* a direct application of _list_fixes / _mark_fixed_all to given inputs

envVars  == <<log, origin, local, marker, clock>>
procVars == <<pc, argv, mode, tip, disc, queue, cur, tmp, rc, exc, status, exit, out, err, execs>>
vars     == <<log, origin, local, marker, clock, tmpdir, pc, argv, mode, tip, disc, queue,
              cur, tmp, rc, exc, status, exit, out, err, execs, unit>>

(***************************************************************************)
(* Bounds of the model.                                                    *)
(***************************************************************************)
MaxCommits == 2     \* commits on the remote master, the first one included
MaxClock   == 1     \* the clock runs from 0 to MaxClock
MaxLines   == 2     \* lines of a tool's output in a direct application of _list_fixes

(***************************************************************************)
(* Values.                                                                 *)
(***************************************************************************)
Names    == {"a.sh", "b.sh"}          \* basenames of fix scripts on master
Contents == {"v1", "v2"}              \* script bodies (non-empty, executable text)
LocalContents == {"v1"}               \* bodies of the clone's own files
Absent   == "absent"                  \* no such file
Empty    == "empty"                   \* a file of zero bytes
NoTime   == -1                        \* Optional[datetime] None
NoSha    == 0                         \* Optional[str] None
NoCode   == -1                        \* no return code (the process has not ended)

FixesPath == <<"fixit", "fixes">>     \* _FIXES_PATH = "fixit/fixes/"
Mode0600  == 384                      \* mode of a fresh NamedTemporaryFile
Mode0700  == 448                      \* 0o700

PlainA  == << <<"fixit", "fixes", "a.sh">> >>
SpacedA == << <<"fixit", "fixes", "p">>, <<"q">>, <<"r">>, <<"a.sh">> >>
SpacedB == << <<"fixit", "fixes", "p">>, <<"q">>, <<"r">>, <<"s", "b.sh">> >>
Readme  == << <<"README">> >>

\* The paths a clone may track, in the byte order git lists them.
LocalOrder == <<Readme, PlainA, SpacedA, SpacedB>>
LocalPaths == {LocalOrder[i] : i \in 1..Len(LocalOrder)}

\* The names of master's fixes directory, in tree order.
NameOrder == <<"a.sh", "b.sh">>

RECURSIVE SelectSeq2(_, _)
\* The subsequence of s whose elements are in the set keep.
SelectSeq2(s, keep) ==
    IF s = <<>> THEN <<>>
    ELSE IF Head(s) \in keep THEN <<Head(s)>> \o SelectSeq2(Tail(s), keep)
    ELSE SelectSeq2(Tail(s), keep)

(***************************************************************************)
(* git, as the program invokes it.                                         *)
(***************************************************************************)

\* Whether commit i changed something under fixit/fixes/.
Touches(i) ==
    IF i = 1 THEN \E n \in Names : log[1].tree[n] # Absent
    ELSE log[i].tree # log[i - 1].tree

RECURSIVE RevWalk(_, _)
\* Commits i, i-1, ..., 1 dated at or after since that touch the path, newest first.
RevWalk(i, since) ==
    IF i = 0 THEN <<>>
    ELSE (IF log[i].date >= since /\ Touches(i) THEN <<i>> ELSE <<>>)
         \o RevWalk(i - 1, since)

\* git rev-list --since=<since> <revs...> fixit/fixes/ : stdout lines.  With no
\* <commit> argument git prints its usage to stderr, exits 129 and stdout is empty.
GitRevList(revs, since) ==
    IF revs = <<>> THEN <<>> ELSE RevWalk(revs[1], since)

\* git diff --name-only a..b : the paths whose content differs, one per line.
GitDiffNameOnly(a, b) ==
    LET changed == {n \in Names : log[a].tree[n] # log[b].tree[n]}
        names == SelectSeq2(NameOrder, changed)
    IN  [k \in 1..Len(names) |-> << FixesPath \o <<names[k]>> >>]

\* Whether the path lies under the directory the pathspec names.
MatchesPathspec(path, spec) ==
    /\ Len(path[1]) > Len(spec)
    /\ SubSeq(path[1], 1, Len(spec)) = spec

\* git ls-files <pathspecs...> : the paths of the index that match one of the
\* pathspecs, one bare path per line, in byte order.
GitLsFiles(pathspecs) ==
    SelectSeq2(LocalOrder,
               {p \in LocalPaths : /\ local[p] # Absent
                                   /\ \E s \in pathspecs : MatchesPathspec(p, s)})

\* Mutation of GitShow: the file of the working tree instead of origin/master's.
GitShowWorkingTree(name) ==
    LET p == << FixesPath \o <<name>> >>
    IN  IF p \in LocalPaths THEN local[p] ELSE Absent

\* git show origin/master:fixit/fixes/<name> : the blob, Absent when the path
\* does not exist in that commit (git exits 128 and writes nothing to stdout).
GitShow(name) ==
    IF name \in Names THEN log[origin].tree[name] ELSE Absent

(***************************************************************************)
(* Discovery: the pure part of _list_fixes and its helpers, as functions   *)
(* of the tool's output (stdout lines of rev-list, diff and ls-files).     *)
(***************************************************************************)

RNone     == [k |-> "none", items |-> <<>>]
RError    == [k |-> "IndexError", items |-> <<>>]
RList(s)  == [k |-> "list", items |-> s]

\* os.path.basename of a token: what follows its last '/'.
Basename(token) == token[Len(token)]

\* _last_fixed(): the marker's mtime, None when the marker does not exist.
LastFixedOf(m) == IF m = NoTime THEN NoTime ELSE m
LastFixed == LastFixedOf(marker)

\* _first_relevant_commit_since: the first line of rev-list's stdout, None when empty.
FirstRelevantCommitSince(revOut) ==
    IF revOut = <<>> THEN NoSha ELSE revOut[1]

\* _list_new_fixes_since: the basenames of the lines of git diff --name-only
\* <since_sha>..origin/master, None when there is no commit or no line.
ListNewFixesSince(revOut, diffOf) ==
    LET since_sha == FirstRelevantCommitSince(revOut)
    IN  IF since_sha = NoSha THEN RNone
        ELSE IF diffOf[since_sha] = <<>> THEN RNone
        ELSE RList([i \in 1..Len(diffOf[since_sha]) |-> Basename(diffOf[since_sha][i][1])])

\* Mutation of ListFixes: the filtered case returns the changed names themselves.
ListFixesFromDiff(since, revOut, diffOf, lsOut) ==
    LET new == ListNewFixesSince(revOut, diffOf)
    IN  IF since # NoTime /\ (new.k = "none" \/ new.items = <<>>) THEN RNone
        ELSE IF since # NoTime THEN RList(new.items)
        ELSE IF \E i \in 1..Len(lsOut) : Len(lsOut[i]) < 4 THEN RError
        ELSE RList([i \in 1..Len(lsOut) |-> Basename(lsOut[i][4])])

\* _list_fixes(since_date): tree_line.split(maxsplit=3)[3] raises IndexError on a
\* line of fewer than four tokens; the names not in the filter are skipped.
ListFixes(since, revOut, diffOf, lsOut) ==
    LET new == ListNewFixesSince(revOut, diffOf)
        fixes_filter == {new.items[i] : i \in 1..Len(new.items)}
        names == [i \in 1..Len(lsOut) |-> Basename(lsOut[i][4])]
        Keep(n) == ~(since # NoTime /\ n \notin fixes_filter)
    IN  IF since # NoTime /\ (new.k = "none" \/ new.items = <<>>) THEN RNone
        ELSE IF \E i \in 1..Len(lsOut) : Len(lsOut[i]) < 4 THEN RError
        ELSE RList(SelectSeq(names, Keep))

\* The revisions the program hands to git rev-list: none.
RevListRevs == <<>>

\* The pathspecs the program hands to git ls-files.
LsFilesPathspecs == {FixesPath, <<"origin", "master">>}

\* _list_fixes(since) on the clone as it is.
Discover(since) ==
    ListFixes(since,
              GitRevList(RevListRevs, since),
              [s \in 1..Len(log) |-> GitDiffNameOnly(s, origin)],
              GitLsFiles(LsFilesPathspecs))

(***************************************************************************)
(* The fixit process.                                                      *)
(***************************************************************************)

Line(text, arg) == [text |-> text, arg |-> arg]
NoDisc == [done |-> FALSE, since |-> NoTime, sha |-> NoSha, res |-> RNone]

\* The file of tmpdir the run_fix call in progress created.
TmpFile == CHOOSE f \in tmpdir : f.id = tmp

\* A name no file of the temporary directory has.
FreshId == IF tmpdir = {} THEN 1
           ELSE 1 + (CHOOSE m \in {f.id : f \in tmpdir} : \A f \in tmpdir : f.id <= m)

\* Whether the owner may execute a file of this mode.
OwnerExec(m) == (m \div 64) % 2 = 1

\* main(sys.argv[1:]) at the bottom of the module: a process starts.
Start ==
    /\ pc = "idle"
    /\ \E a \in {<<>>, <<"all">>, <<"a.sh">>, <<"b.sh">>, <<"all", "a.sh">>, <<"a.sh", "b.sh">>} :
          argv' = a
    /\ pc' = "main"
    /\ UNCHANGED <<envVars, tmpdir, mode, tip, disc, queue, cur, tmp, rc, exc, status, exit,
                   out, err, execs, unit>>

\* git fetch origin master: the tracking ref moves to the remote's tip; the exit
\* status is not looked at, so a failed fetch leaves the ref where it was.
GitFetch ==
    /\ pc = "main"
    /\ \E ok \in BOOLEAN : origin' = IF ok THEN Len(log) ELSE origin
    /\ tip' = origin'
    /\ pc' = "dispatch"
    /\ UNCHANGED <<log, local, marker, clock, tmpdir, argv, mode, disc, queue, cur, tmp, rc,
                   exc, status, exit, out, err, execs, unit>>

\* Mutation of Dispatch: "all" is recognised whatever the number of arguments.
DispatchAllAnyArgc(a) ==
    IF Len(a) = 0 THEN "pending"
    ELSE IF a[1] = "all" THEN "all"
    ELSE IF Len(a) = 1 THEN "one"
    ELSE "usage"

\* The if/elif chain of main().
Dispatch(a) ==
    IF Len(a) = 0 THEN "pending"
    ELSE IF Len(a) = 1 /\ a[1] = "all" THEN "all"
    ELSE IF Len(a) = 1 THEN "one"
    ELSE "usage"

MainDispatch ==
    /\ pc = "dispatch"
    /\ mode' = Dispatch(argv)
    /\ \/ /\ Dispatch(argv) \in {"pending", "all"}
          /\ pc' = "run_fixes"
          /\ UNCHANGED <<cur, err, exit>>
       \/ /\ Dispatch(argv) = "one"
          /\ cur' = argv[1]
          /\ pc' = "mktemp"
          /\ UNCHANGED <<err, exit>>
       \/ /\ Dispatch(argv) = "usage"
          /\ err' = Append(err, Line("Usage: fixit fix_name", ""))
          /\ exit' = 1
          /\ pc' = "exited"
          /\ UNCHANGED cur
    /\ UNCHANGED <<envVars, tmpdir, argv, tip, disc, queue, tmp, rc, exc, status, out,
                   execs, unit>>

\* run_fixes up to its loop: discovery, and the "No fixes to run!" return.  An
\* IndexError of _list_fixes is caught nowhere: traceback, exit status 1.
RunFixes ==
    /\ pc = "run_fixes"
    /\ LET since == IF mode = "all" THEN NoTime ELSE LastFixed
           res   == Discover(since)
           sha   == IF since = NoTime THEN NoSha
                    ELSE FirstRelevantCommitSince(GitRevList(RevListRevs, since))
       IN  /\ disc' = [done |-> TRUE, since |-> since, sha |-> sha, res |-> res]
           /\ \/ /\ res.k = "IndexError"
                 /\ exc' = "IndexError"
                 /\ exit' = 1
                 /\ pc' = "exited"
                 /\ UNCHANGED <<queue, out>>
              \/ /\ res.k # "IndexError"
                 /\ res.items = <<>>
                 /\ out' = Append(out, Line("No fixes to run!", ""))
                 /\ exit' = 0
                 /\ pc' = "exited"
                 /\ UNCHANGED <<queue, exc>>
              \/ /\ res.k = "list"
                 /\ res.items # <<>>
                 /\ queue' = res.items
                 /\ pc' = "loop"
                 /\ UNCHANGED <<out, exc, exit>>
    /\ UNCHANGED <<envVars, tmpdir, argv, mode, tip, cur, tmp, rc, status, err, execs, unit>>

\* Mutation of LoopStep: the loop ends at the first fix whose script exited non-zero.
LoopStepStopOnFailure ==
    /\ pc = "loop"
    /\ queue # <<>>
    /\ IF status = 1
       THEN /\ exit' = 0
            /\ pc' = "exited"
            /\ UNCHANGED <<out, cur, queue>>
       ELSE /\ out' = Append(out, Line("Running fix", Head(queue)))
            /\ cur' = Head(queue)
            /\ queue' = Tail(queue)
            /\ pc' = "mktemp"
            /\ UNCHANGED exit
    /\ UNCHANGED <<envVars, tmpdir, argv, mode, tip, disc, tmp, rc, exc, status, err,
                   execs, unit>>

\* One turn of `for fix in fixes`: the print, then the call of run_fix.
LoopStep ==
    /\ pc = "loop"
    /\ queue # <<>>
    /\ out' = Append(out, Line("Running fix", Head(queue)))
    /\ cur' = Head(queue)
    /\ queue' = Tail(queue)
    /\ pc' = "mktemp"
    /\ UNCHANGED <<envVars, tmpdir, argv, mode, tip, disc, tmp, rc, exc, status, exit, err,
                   execs, unit>>

\* Mutation of LoopDone: the marker is refreshed when the run is over.
LoopDoneMarking ==
    /\ pc = "loop"
    /\ queue = <<>>
    /\ marker' = clock
    /\ exit' = 0
    /\ pc' = "exited"
    /\ UNCHANGED <<log, origin, local, clock, tmpdir, argv, mode, tip, disc, queue, cur, tmp,
                   rc, exc, status, out, err, execs, unit>>

\* The loop is exhausted: run_fixes and main return, the process exits with 0.
LoopDone ==
    /\ pc = "loop"
    /\ queue = <<>>
    /\ exit' = 0
    /\ pc' = "exited"
    /\ UNCHANGED <<envVars, tmpdir, argv, mode, tip, disc, queue, cur, tmp, rc, exc, status,
                   out, err, execs, unit>>

(***************************************************************************)
(* run_fix(name), statement by statement.                                  *)
(***************************************************************************)

\* Mutation of OnRaise: no finally clause, the exception leaves run_fix at once.
OnRaiseNoFinally(e) ==
    /\ exc' = e
    /\ pc' = "exited"

\* An exception inside the try block: control goes to the finally clause.
OnRaise(e) ==
    /\ exc' = e
    /\ pc' = "finally"

\* tempfile = NamedTemporaryFile(delete=False): a new, empty file of mode 0600.
MkTemp ==
    /\ pc = "mktemp"
    /\ tmp' = FreshId
    /\ tmpdir' = tmpdir \cup {[id |-> FreshId, mode |-> Mode0600, content |-> Empty]}
    /\ rc' = NoCode
    /\ pc' = "show"
    /\ UNCHANGED <<envVars, argv, mode, tip, disc, queue, cur, exc, status, exit, out, err,
                   execs, unit>>

\* subprocess.run(["git", "show", ...], stdout=tempfile): the blob goes into the
\* file; a missing path leaves the file empty and the return code is not looked
\* at.  subprocess.run itself may raise (git cannot be started).
Show ==
    /\ pc = "show"
    /\ \/ /\ OnRaise("show")
          /\ UNCHANGED <<tmpdir, rc>>
       \/ /\ rc' = IF GitShow(cur) = Absent THEN 128 ELSE 0
          /\ tmpdir' = (tmpdir \ {TmpFile}) \cup
                 {[TmpFile EXCEPT !.content = IF GitShow(cur) = Absent THEN Empty
                                               ELSE GitShow(cur)]}
          /\ pc' = "close"
          /\ UNCHANGED exc
    /\ UNCHANGED <<envVars, argv, mode, tip, disc, queue, cur, tmp, status, exit, out, err,
                   execs, unit>>

\* tempfile.close()
Close ==
    /\ pc = "close"
    /\ \/ OnRaise("close")
       \/ /\ pc' = "chmod"
          /\ UNCHANGED exc
    /\ UNCHANGED <<envVars, tmpdir, argv, mode, tip, disc, queue, cur, tmp, rc, status, exit,
                   out, err, execs, unit>>

\* Mutation of Chmod: the step is left out.
ChmodSkipped ==
    /\ pc = "chmod"
    /\ pc' = "exec"
    /\ UNCHANGED <<envVars, tmpdir, argv, mode, tip, disc, queue, cur, tmp, rc, exc, status,
                   exit, out, err, execs, unit>>

\* os.chmod(tempfile.name, 0o700)
Chmod ==
    /\ pc = "chmod"
    /\ \/ /\ OnRaise("chmod")
          /\ UNCHANGED tmpdir
       \/ /\ tmpdir' = (tmpdir \ {TmpFile}) \cup {[TmpFile EXCEPT !.mode = Mode0700]}
          /\ pc' = "exec"
          /\ UNCHANGED exc
    /\ UNCHANGED <<envVars, argv, mode, tip, disc, queue, cur, tmp, rc, status, exit, out,
                   err, execs, unit>>

\* Mutation of Exec: an empty file runs as an empty script and exits 0 (what a
\* shell would do with it).
ExecEmptyRuns ==
    /\ pc = "exec"
    /\ execs' = Append(execs, [name |-> cur, content |-> TmpFile.content,
                               mode |-> TmpFile.mode, ok |-> TRUE, st |-> 0])
    /\ status' = 0
    /\ pc' = "finally"
    /\ UNCHANGED <<envVars, tmpdir, argv, mode, tip, disc, queue, cur, tmp, rc, exc, exit,
                   out, err, unit>>

\* subprocess.run([tempfile.name], cwd=repo_root): the file is started.  An empty
\* file (ENOEXEC) or one the owner may not execute (EACCES) raises OSError;
\* otherwise the script runs to its end and its exit status is not looked at.
Exec ==
    /\ pc = "exec"
    /\ \/ /\ TmpFile.content = Empty \/ ~OwnerExec(TmpFile.mode)
          /\ execs' = Append(execs, [name |-> cur, content |-> TmpFile.content,
                                     mode |-> TmpFile.mode, ok |-> FALSE, st |-> NoCode])
          /\ OnRaise("OSError")
          /\ UNCHANGED status
       \/ /\ TmpFile.content # Empty /\ OwnerExec(TmpFile.mode)
          /\ \E st \in {0, 1} :
                /\ status' = st
                /\ execs' = Append(execs, [name |-> cur, content |-> TmpFile.content,
                                           mode |-> TmpFile.mode, ok |-> TRUE, st |-> st])
          /\ pc' = "finally"
          /\ UNCHANGED exc
    /\ UNCHANGED <<envVars, tmpdir, argv, mode, tip, disc, queue, cur, tmp, rc, exit, out,
                   err, unit>>

\* finally: os.remove(tempfile.name); then run_fix returns to its caller, or the
\* exception in flight goes on through run_fixes and main (traceback, status 1).
Finally ==
    /\ pc = "finally"
    /\ tmpdir' = tmpdir \ {TmpFile}
    /\ tmp' = 0
    /\ \/ /\ exc # "none"
          /\ exit' = 1
          /\ pc' = "exited"
       \/ /\ exc = "none"
          /\ mode = "one"
          /\ exit' = 0
          /\ pc' = "exited"
       \/ /\ exc = "none"
          /\ mode # "one"
          /\ pc' = "loop"
          /\ UNCHANGED exit
    /\ UNCHANGED <<envVars, argv, mode, tip, disc, queue, cur, rc, exc, status, out, err,
                   execs, unit>>

\* The process is gone; what it held in memory and printed goes with it.
Exit ==
    /\ pc = "exited"
    /\ pc' = "idle"
    /\ argv' = <<>>
    /\ mode' = "none"
    /\ tip' = 0
    /\ disc' = NoDisc
    /\ queue' = <<>>
    /\ cur' = ""
    /\ tmp' = 0
    /\ rc' = NoCode
    /\ exc' = "none"
    /\ status' = NoCode
    /\ exit' = NoCode
    /\ out' = <<>>
    /\ err' = <<>>
    /\ execs' = <<>>
    /\ UNCHANGED <<envVars, tmpdir, unit>>

(***************************************************************************)
(* What happens around the process, between two runs of it.                *)
(***************************************************************************)

\* Somebody pushes a commit to the remote master, at any time; it may add, change
\* or delete a fix, or touch nothing under fixit/fixes/.
RemotePush ==
    /\ Len(log) < MaxCommits
    /\ \E n \in Names, c \in Contents \cup {Absent} :
          log' = Append(log, [date |-> clock,
                              tree |-> [log[Len(log)].tree EXCEPT ![n] = c]])
    /\ UNCHANGED <<origin, local, marker, clock, tmpdir, procVars, unit>>

\* The user changes the clone between two runs: a file under fixit/fixes/ is
\* added to, or removed from, what it tracks.
LocalEdit ==
    /\ pc = "idle"
    /\ \E p \in LocalPaths, c \in LocalContents \cup {Absent} :
          /\ MatchesPathspec(p, FixesPath)
          /\ c # local[p]
          /\ local' = [local EXCEPT ![p] = c]
    /\ UNCHANGED <<log, origin, marker, clock, tmpdir, procVars, unit>>

\* The marker is written from outside the run path: touched, or deleted.
ExternalMarker ==
    /\ pc = "idle"
    /\ \E m \in {NoTime, clock} :
          /\ m # marker
          /\ marker' = m
    /\ UNCHANGED <<log, origin, local, clock, tmpdir, procVars, unit>>

\* Time passes.
Tick ==
    /\ pc = "idle"
    /\ clock < MaxClock
    /\ clock' = clock + 1
    /\ UNCHANGED <<log, origin, local, marker, tmpdir, procVars, unit>>

(***************************************************************************)
(* _list_fixes and _mark_fixed_all applied directly, as a test with a      *)
(* stand-in for git would apply them: the tool's output is any sequence of *)
(* lines, the marker and the clock are any.                                *)
(***************************************************************************)

UnitOff == [kind |-> "off"]

TreeLineA == << <<"100644">>, <<"blob">>, <<"sha">>, <<"fixit", "fixes", "a.sh">> >>
TreeLineB == << <<"100644">>, <<"blob">>, <<"sha">>, <<"fixit", "fixes", "b.sh">> >>
DiffLineC == << <<"fixit", "fixes", "c.sh">> >>

\* Sequences over S of length at most n.
SeqsUpTo(S, n) == UNION {[1..k -> S] : k \in 0..n}

UnitShas     == {1, 2}
UnitLsLines  == {PlainA, SpacedA, TreeLineA, TreeLineB}
UnitDiffLines == {PlainA, << <<"fixit", "fixes", "b.sh">> >>, DiffLineC}

UnitListInputs ==
    [kind : {"list"}, applied : {FALSE}, since : {0},
     rev : SeqsUpTo(UnitShas, MaxLines),
     diff : SeqsUpTo(UnitDiffLines, MaxLines),
     ls : SeqsUpTo(UnitLsLines, MaxLines),
     filtered : {RNone}, all : {RNone}]

UnitMarkInputs ==
    [kind : {"mark"}, called : {FALSE}, before : {NoTime}, after : {NoTime}, at : {NoTime}]

\* Mutation of MarkFixedAll: an existing marker keeps its timestamp.
MarkFixedAllCreateOnly(m, now) ==
    IF m # NoTime THEN m ELSE now

\* _mark_fixed_all(): Path.touch(exist_ok=True) on the marker.  pathlib first
\* tries os.utime(path, None), which sets the mtime of an existing file to now;
\* only when that fails does it create the file, whose mtime is then now.
MarkFixedAll(m, now) ==
    IF m # NoTime THEN now ELSE now

\* _list_fixes(since) and _list_fixes() on the same output of the tool.
UnitApply ==
    /\ unit.kind = "list"
    /\ ~unit.applied
    /\ unit' = [unit EXCEPT
                  !.applied = TRUE,
                  !.filtered = ListFixes(unit.since, unit.rev,
                                         [s \in UnitShas |-> unit.diff], unit.ls),
                  !.all = ListFixes(NoTime, unit.rev,
                                    [s \in UnitShas |-> unit.diff], unit.ls)]
    /\ UNCHANGED <<envVars, tmpdir, procVars>>

\* _last_fixed(), _mark_fixed_all(), _last_fixed().
UnitMark ==
    /\ unit.kind = "mark"
    /\ marker' = MarkFixedAll(marker, clock)
    /\ unit' = [unit EXCEPT !.called = TRUE, !.before = LastFixed, !.at = clock,
                            !.after = LastFixedOf(marker')]
    /\ UNCHANGED <<log, origin, local, clock, tmpdir, procVars>>

\* The marker is deleted.
UnitRemove ==
    /\ unit.kind = "mark"
    /\ marker # NoTime
    /\ marker' = NoTime
    /\ UNCHANGED <<log, origin, local, clock, tmpdir, procVars, unit>>

\* Time passes.
UnitTick ==
    /\ unit.kind = "mark"
    /\ clock < MaxClock
    /\ clock' = clock + 1
    /\ UNCHANGED <<log, origin, local, marker, tmpdir, procVars, unit>>

Init ==
    /\ log = << [date |-> 0, tree |-> [n \in Names |-> IF n = "a.sh" THEN "v1" ELSE Absent]] >>
    /\ origin = 1
    /\ local = [p \in LocalPaths |-> IF p \in {Readme, PlainA} THEN "v1" ELSE Absent]
    /\ marker = NoTime
    /\ clock = 0
    /\ tmpdir = {}
    /\ pc = "idle"
    /\ argv = <<>>
    /\ mode = "none"
    /\ tip = 0
    /\ disc = NoDisc
    /\ queue = <<>>
    /\ cur = ""
    /\ tmp = 0
    /\ rc = NoCode
    /\ exc = "none"
    /\ status = NoCode
    /\ exit = NoCode
    /\ out = <<>>
    /\ err = <<>>
    /\ execs = <<>>
    /\ unit = UnitOff

Next ==
    \/ Start \/ GitFetch \/ MainDispatch \/ RunFixes \/ LoopStep \/ LoopDone
    \/ MkTemp \/ Show \/ Close \/ Chmod \/ Exec \/ Finally \/ Exit
    \/ RemotePush \/ LocalEdit \/ ExternalMarker \/ Tick

Spec == Init /\ [][Next]_vars

InitUnit ==
    /\ log = << [date |-> 0, tree |-> [n \in Names |-> IF n = "a.sh" THEN "v1" ELSE Absent]] >>
    /\ origin = 1
    /\ local = [p \in LocalPaths |-> IF p \in {Readme, PlainA} THEN "v1" ELSE Absent]
    /\ marker = NoTime
    /\ clock = 0
    /\ tmpdir = {}
    /\ pc = "idle"
    /\ argv = <<>>
    /\ mode = "none"
    /\ tip = 0
    /\ disc = NoDisc
    /\ queue = <<>>
    /\ cur = ""
    /\ tmp = 0
    /\ rc = NoCode
    /\ exc = "none"
    /\ status = NoCode
    /\ exit = NoCode
    /\ out = <<>>
    /\ err = <<>>
    /\ execs = <<>>
    /\ unit \in UnitListInputs \cup UnitMarkInputs

NextUnit == UnitApply \/ UnitMark \/ UnitRemove \/ UnitTick

SpecUnit == InitUnit /\ [][NextUnit]_vars

(***************************************************************************)
(* Properties.                                                             *)
(***************************************************************************)

InRunFix == pc \in {"mktemp", "show", "close", "chmod", "exec", "finally"}

\* The fixes discovery returned, when it returned a list.
Fixes == IF disc.done /\ disc.res.k = "list" THEN disc.res.items ELSE <<>>

RECURSIVE IsSubseq(_, _)
\* Whether s is t with some elements left out (the order kept).
IsSubseq(s, t) ==
    IF s = <<>> THEN TRUE
    ELSE IF t = <<>> THEN FALSE
    ELSE IF Head(s) = Head(t) THEN IsSubseq(Tail(s), Tail(t))
    ELSE IsSubseq(s, Tail(t))

\* C1: outside a run_fix call no temporary file exists, whichever way the call
\* ended (return, non-zero script, exception in git show, close, chmod or the
\* start of the file); inside a call only that call's file exists.
C1_TempFileRemoved ==
    /\ ~InRunFix => tmpdir = {}
    /\ InRunFix => \A f \in tmpdir : f.id = tmp

C1_Witness ==
    /\ pc = "exited"
    /\ exc = "chmod"
    /\ tmpdir = {}

\* C2: whenever a materialised script is started its mode is exactly 0700, and
\* the start comes after the chmod of the same call.
C2_OwnerOnlyAtExec ==
    /\ \A i \in 1..Len(execs) : execs[i].mode = Mode0700
    /\ pc = "exec" => TmpFile.mode = Mode0700

C2_Witness ==
    \E i \in 1..Len(execs) : execs[i].ok /\ execs[i].mode = Mode0700

\* C3: the bytes of every script that runs are the blob of fixit/fixes/<name> in
\* origin/master as the fetch of this process left it, not the working tree's.
C3_ExecutesTipContent ==
    /\ pc \notin {"idle", "main"} => origin = tip
    /\ \A i \in 1..Len(execs) :
          execs[i].ok => /\ execs[i].name \in Names
                         /\ execs[i].content = log[tip].tree[execs[i].name]

C3_Witness ==
    /\ tip > 1
    /\ \E i \in 1..Len(execs) :
          /\ execs[i].ok
          /\ GitShowWorkingTree(execs[i].name) \in LocalContents
          /\ GitShowWorkingTree(execs[i].name) # execs[i].content

\* The basenames of the changed-set _list_fixes(since) filters with.
UnitChanged == {Basename(unit.diff[i][1]) : i \in 1..Len(unit.diff)}

\* C4: filtered discovery returns None, or names that all occur in unconditional
\* discovery on the same tool output, in the same order; a changed name that the
\* listing does not hold is not returned.
C4_FilteredSubsequence ==
    (unit.kind = "list" /\ unit.applied /\ unit.filtered.k = "list") =>
        /\ unit.all.k = "list"
        /\ IsSubseq(unit.filtered.items, unit.all.items)
        /\ \A n \in UnitChanged :
              (\A i \in 1..Len(unit.ls) : Basename(unit.ls[i][4]) # n)
                 => \A j \in 1..Len(unit.filtered.items) : unit.filtered.items[j] # n

C4_Witness ==
    /\ unit.kind = "list"
    /\ unit.applied
    /\ unit.filtered.k = "list"
    /\ unit.filtered.items # <<>>
    /\ Len(unit.filtered.items) < Len(unit.all.items)
    /\ \E n \in UnitChanged : \A i \in 1..Len(unit.ls) : Basename(unit.ls[i][4]) # n

\* C5 as stated (creation-only touch): _mark_fixed_all on an existing marker
\* leaves _last_fixed() as it was.
C5_CreationOnlyTouch ==
    (unit.kind = "mark" /\ unit.called /\ unit.before # NoTime) =>
        unit.after = unit.before

\* C5 as amended: after _mark_fixed_all, _last_fixed() is the time of the call,
\* whether the marker existed or not; an existing marker's timestamp never moves
\* back.
C5_TouchRefreshes ==
    (unit.kind = "mark" /\ unit.called) =>
        /\ unit.after = unit.at
        /\ unit.before # NoTime => unit.after >= unit.before

C5_Witness ==
    /\ unit.kind = "mark"
    /\ unit.called
    /\ unit.before # NoTime
    /\ unit.after > unit.before

\* C6: run_fixes prints and runs the discovered fixes one after the other in
\* discovery order, the print of a fix before its run, the next fix after the
\* previous one has ended; with no exception all of them have run exactly once
\* when the process ends, whatever the scripts' exit statuses were.
C6_RunsAllInOrder ==
    (mode \in {"pending", "all"} /\ Fixes # <<>>) =>
        /\ Len(out) <= Len(Fixes)
        /\ \A i \in 1..Len(out) : out[i] = Line("Running fix", Fixes[i])
        /\ queue = SubSeq(Fixes, Len(out) + 1, Len(Fixes))
        /\ Len(execs) <= Len(out)
        /\ \A i \in 1..Len(execs) : execs[i].name = Fixes[i]
        /\ pc \in {"mktemp", "show", "close", "chmod", "exec"} =>
              /\ Len(out) = Len(execs) + 1
              /\ cur = Fixes[Len(out)]
        /\ pc = "loop" => Len(execs) = Len(out)
        /\ (pc = "exited" /\ exc = "none") =>
              /\ Len(execs) = Len(Fixes)
              /\ Len(out) = Len(Fixes)
              /\ \A i \in 1..Len(execs) : execs[i].ok
              /\ exit = 0

C6_Witness ==
    /\ pc = "exited"
    /\ exc = "none"
    /\ mode = "pending"
    /\ Len(execs) = 2
    /\ execs[1].name # execs[2].name
    /\ execs[1].st = 1

\* C7: with two or more arguments nothing is discovered and nothing is run; the
\* usage line goes to stderr and the process exits with status 1.
C7_UsageError ==
    Len(argv) >= 2 =>
        /\ pc \in {"main", "dispatch", "exited"}
        /\ ~disc.done
        /\ execs = <<>>
        /\ tmpdir = {}
        /\ out = <<>>
        /\ pc = "exited" => /\ exit = 1
                            /\ err = <<Line("Usage: fixit fix_name", "")>>
                            /\ exc = "none"

C7_Witness ==
    /\ pc = "exited"
    /\ argv = <<"all", "a.sh">>
    /\ exit = 1

\* The commits of origin/master dated at or after since that touch fixit/fixes/.
RelevantSince(since) == {i \in 1..origin : log[i].date >= since /\ Touches(i)}

\* The oldest of them.
EarliestSince(since) ==
    CHOOSE i \in RelevantSince(since) : \A j \in RelevantSince(since) : i <= j

\* C8: when a commit touching fixit/fixes/ is dated at or after the marker, the
\* commit _first_relevant_commit_since selects is the earliest such commit, and
\* filtered discovery returns the names at the tip that differ between that
\* commit and the tip.
C8_EarliestCommitSelected ==
    (disc.done /\ disc.since # NoTime /\ RelevantSince(disc.since) # {}) =>
        /\ disc.sha = EarliestSince(disc.since)
        /\ disc.res.items =
              SelectSeq2(NameOrder,
                         {n \in Names :
                             /\ log[origin].tree[n] # Absent
                             /\ log[EarliestSince(disc.since)].tree[n] # log[origin].tree[n]})

\* C9: when git show fails for a fix (and close and chmod do not), the empty file
\* is still started, the start raises OSError, the process ends with it, and no
\* later fix is printed or run.
C9_RetrievalFailureAborts ==
    rc = 128 =>
        /\ pc \in {"close", "chmod", "exec", "finally", "exited"}
        /\ (pc \in {"finally", "exited"} /\ exc \notin {"close", "chmod"}) =>
              /\ exc = "OSError"
              /\ execs # <<>>
              /\ execs[Len(execs)] = [name |-> cur, content |-> Empty, mode |-> Mode0700,
                                      ok |-> FALSE, st |-> NoCode]
        /\ pc = "exited" =>
              /\ exit = 1
              /\ mode \in {"pending", "all"} =>
                    /\ out[Len(out)] = Line("Running fix", cur)
                    /\ Len(out) + Len(queue) = Len(Fixes)

C9_Witness ==
    /\ pc = "exited"
    /\ rc = 128
    /\ exc = "OSError"
    /\ queue # <<>>

\* C10: no step of a fixit process changes the marker, and the boundary a
\* run-pending uses is the marker's timestamp as it is.
C10_MarkerReadOnly ==
    /\ [][(pc # "idle" \/ pc' # "idle") => marker' = marker]_vars
    /\ [](disc.done /\ mode = "pending" => disc.since = LastFixed)

C10_Witness ==
    /\ pc = "exited"
    /\ mode = "all"
    /\ exc = "none"
    /\ execs # <<>>
    /\ marker = NoTime

====
